---- MODULE Spec2Model ----
(***************************************************************************)
(* Placeholder Forge: the image generation page (script part of the Vue    *)
(* single-file component).  The page exists in two variants: the one with  *)
(* the RAM safeguard and the target file size (MAX_RAM_BYTES, targetSize,  *)
(* inflateBlob, the watcher on count), which is modelled here, and         *)
(* app/pages/index.vue, which is the same code without them: it behaves as *)
(* the modelled page does while targetSize is 0 and count is within the    *)
(* RAM limit.                                                              *)
(*                                                                         *)
(* A state is the value of the refs of the component, the position of the  *)
(* suspended async function generateImages with its locals, and a few      *)
(* history variables (h...) that record what happened in the current run.  *)
(* Every action is one event handler of the template, with the :disabled   *)
(* and v-if conditions of its control as guard, or one resumption of       *)
(* generateImages after its await.                                         *)
(***************************************************************************)
EXTENDS Integers, Sequences, FiniteSets, TLC

(* ------------------------------ bounds --------------------------------- *)

\* Math.random() is k / RandRes for a k in 0 .. RandRes-1.
RandRes == 101
\* The random sources are followed along RngPeriod outcomes, taken in turn
\* from any of them on in each run.
RngPeriod == 2
\* Number fields accept any number: the counts typed into "Number of images".
MaxCount == 2
\* Longest run that is followed to its end (a preset badge can raise count
\* while a run is in progress).
MaxUnits == 5
\* deleteImage calls followed after one Generate.
MaxDeletes == 1
\* Size of the bytes the canvas encodes to, and of the EXIF segment.
EncodedLen == 2
ExifLen == 1
\* inflateBlob on explicit bytes: parts per blob, bytes per part, target.
MaxParts == 2
MaxRun == 2
MaxTarget == 6

(* ----------------------------- constants ------------------------------- *)

MAX_RAM_BYTES == 500 * 1024 * 1024

targetSizeItems == <<0, 1 * 1024 * 1024, 5 * 1024 * 1024, 10 * 1024 * 1024>>

statusSteps ==
  << "Initializing canvas", "Generating dimensions", "Applying background color",
     "Drawing placeholder text", "Injecting EXIF metadata",
     "Generating GeoLocation data", "Rendering image textures",
     "Finalizing image details", "Compressing image data",
     "Preparing ZIP archive", "Export ready! Download your images" >>

landscapeSizes == << <<1920, 1080>>, <<1280, 720>>, <<3840, 2160>>, <<2560, 1440>> >>
portraitSizes == << <<1080, 1920>>, <<720, 1280>>, <<2160, 3840>>, <<1440, 2560>> >>

\* The preset badges under "Number of images".
countPresets == {5, 25, 50, 100}

Min(a, b) == IF a <= b THEN a ELSE b
Max(a, b) == IF a >= b THEN a ELSE b

(* ------------------------------ state ---------------------------------- *)

VARIABLES
  count, format, randomSize, width, height, withExif, targetSize,
  images, isGenerating, cancelRequested, stepIdx,
  i, unit,          \* generateImages suspended at its await: loop index, locals
  rng,              \* state of the random sources (Math.random, crypto, faker)
  download,         \* the file the step just taken handed to saveBlob, if any
  hRun,             \* history: the settings the run in progress started with
  hPushed,          \* history: items the run in progress has appended
  hTouched,         \* history: settings changed while the run has been in progress
  hCancel,          \* history: where the run in progress was when Cancel was clicked
  hDeleted,         \* history: deleteImage calls since the last Generate
  fnArgs, fnResult  \* a helper called on its own: its arguments and result

cfgVars == <<count, format, randomSize, width, height, withExif, targetSize>>
runVars == <<images, isGenerating, cancelRequested, stepIdx, i, unit, rng>>
histVars == <<hRun, hPushed, hTouched, hCancel, hDeleted>>
fnVars == <<fnArgs, fnResult>>
vars == <<cfgVars, runVars, download, histVars, fnVars>>

\* null, and the value of a variable that holds nothing yet
None == [null |-> TRUE]

(* ------------------------- RAM safeguard ------------------------------- *)

\* The computed refs, as functions of the refs they read (c: count.value,
\* t: targetSize.value), and their value in the current state.
estimatedImageSizeOf(t) == IF t # 0 THEN t ELSE 300 * 1024

\* A slip: the quotient rounded up.
maxCountAllowedCeil(t) ==
  Max(1, (MAX_RAM_BYTES + estimatedImageSizeOf(t) - 1) \div estimatedImageSizeOf(t))

maxCountAllowedOf(t) == Max(1, MAX_RAM_BYTES \div estimatedImageSizeOf(t))

totalEstimatedBytesOf(c, t) == c * estimatedImageSizeOf(t)

isOverRamLimitOf(c, t) == totalEstimatedBytesOf(c, t) > MAX_RAM_BYTES

estimatedImageSize == estimatedImageSizeOf(targetSize)
maxCountAllowed == maxCountAllowedOf(targetSize)
totalEstimatedBytes == totalEstimatedBytesOf(count, targetSize)
isOverRamLimit == isOverRamLimitOf(count, targetSize)

\* watch([targetSize, count], ...): the value count has once the watcher has
\* run on the new values c and t.
watchCount(c, t) ==
  IF c > maxCountAllowedOf(t) THEN maxCountAllowedOf(t) ELSE c

(* ------------------------------ helpers -------------------------------- *)

Random == 0 .. (RandRes - 1)

\* Math.floor(Math.random() * n) for Math.random() = r / RandRes
floorRandom(r, n) == (r * n) \div RandRes

randInt(min, max, r) == floorRandom(r, max - min + 1) + min

\* A slip: the offset taken from -100 .. 100.
randomOffsetWide(r) == floorRandom(r, 201) - 100

randomOffset(r) == floorRandom(r, 101) - 50

\* r = <<coin, index, offset of the width, offset of the height>>, the four
\* Math.random() results in the order pickSize asks for them.
pickSize(r) ==
  IF randomSize
  THEN LET base == IF 2 * r[1] > RandRes
                   THEN landscapeSizes[floorRandom(r[2], Len(landscapeSizes)) + 1]
                   ELSE portraitSizes[floorRandom(r[2], Len(portraitSizes)) + 1]
       IN  <<base[1] + randomOffset(r[3]), base[2] + randomOffset(r[4])>>
  ELSE <<width, height>>

(* A Blob is its type and its bytes; the bytes are kept as a sequence of    *)
(* runs [byte, n] (n times the same byte), so that a 10 MB padding is one   *)
(* run.  BlobBytes gives the bytes themselves.                              *)
RECURSIVE PartsSize(_)
PartsSize(parts) ==
  IF parts = <<>> THEN 0 ELSE Head(parts).n + PartsSize(Tail(parts))

BlobSize(blob) == PartsSize(blob.parts)

RECURSIVE PartsBytes(_)
PartsBytes(parts) ==
  IF parts = <<>> THEN <<>>
  ELSE [k \in 1 .. Head(parts).n |-> Head(parts).byte] \o PartsBytes(Tail(parts))

BlobBytes(blob) == PartsBytes(blob.parts)

\* new Uint8Array(padSize).fill(0)
ZeroPad(padSize) == [byte |-> 0, n |-> padSize]

\* A slip: the padding is given the size of the target, not of what is missing.
inflateBlobPadsTarget(blob, targetBytes) ==
  IF targetBytes = 0 \/ BlobSize(blob) >= targetBytes
  THEN blob
  ELSE [type |-> blob.type, parts |-> blob.parts \o <<ZeroPad(targetBytes)>>]

\* A slip: new Blob([pad, blob]), the padding put first.
inflateBlobPadsFirst(blob, targetBytes) ==
  IF targetBytes = 0 \/ BlobSize(blob) >= targetBytes
  THEN blob
  ELSE LET padSize == targetBytes - BlobSize(blob)
       IN  [type |-> blob.type, parts |-> <<ZeroPad(padSize)>> \o blob.parts]

inflateBlob(blob, targetBytes) ==
  IF targetBytes = 0 \/ BlobSize(blob) >= targetBytes
  THEN blob
  ELSE LET padSize == targetBytes - BlobSize(blob)
       IN  [type |-> blob.type, parts |-> blob.parts \o <<ZeroPad(padSize)>>]


(* --------------------------- one unit ---------------------------------- *)

\* crypto.randomUUID().split("-")[0] in state s of the random sources
uuidAt(s) == IF s % 2 = 0 THEN "1a2b3c4d" ELSE "9f8e7d6c"

\* The Math.random() results one unit asks for, in order: four for pickSize,
\* then integer and fraction of the latitude and of the longitude.  In state
\* s of the random sources they are all the least or all the greatest one.
drawsAt(s) == [k \in 1 .. 8 |-> IF s % 2 = 0 THEN 0 ELSE RandRes - 1]

mimeOf(fmt) == IF fmt = "jpg" THEN "image/jpeg" ELSE "image/png"

\* First byte of the encoded file: FF (JPEG, start of image), 89 (PNG).
magicOf(mime) == IF mime = "image/jpeg" THEN 255 ELSE 137

\* The pixels show the short id, so the encoded bytes differ with it.
pixelByte(uuid) == IF uuid = "1a2b3c4d" THEN 17 ELSE 34

\* canvas.toDataURL(mime, 0.9)
toDataURL(uuid, mime) ==
  [type |-> mime,
   parts |-> <<[byte |-> magicOf(mime), n |-> 1],
               [byte |-> pixelByte(uuid), n |-> EncodedLen]>>]

\* A coordinate is kept in units of 1 / RandRes of a degree.
gpsDegrees(max, rInt, rFrac) == randInt(0, max, rInt) * RandRes + rFrac

makeExif(r) ==
  [Software |-> "Placeholder Forge",
   GPSLatitudeRef |-> "N", GPSLatitude |-> gpsDegrees(90, r[5], r[6]),
   GPSLongitudeRef |-> "E", GPSLongitude |-> gpsDegrees(180, r[7], r[8])]

\* A slip: the format is not asked for.
exifWantedAnyFormat == withExif

\* if (withExif.value && format.value === "jpg")
exifWanted == withExif /\ format = "jpg"

\* piexif.insert(piexif.dump(exifObj), dataURL): the APP1 segment (E1) goes
\* right after the start of image, the rest follows unchanged.
piexifInsert(dataURL) ==
  [type |-> dataURL.type,
   parts |-> <<Head(dataURL.parts), [byte |-> 225, n |-> ExifLen]>>
             \o Tail(dataURL.parts)]

\* A slip: Math.floor(((i + 1) / count.value) * 10) without the cap.
progressStepUncapped(idx) == (10 * (idx + 1)) \div count

\* Math.min(Math.floor(((i + 1) / count.value) * 10), 9)
progressStep(idx) == Min((10 * (idx + 1)) \div count, 9)

\* A slip: `image_${images.value.length + 1}_...`, the place in the list.
imageNameByLength(idx, uuid, w, h, fmt) ==
  [index |-> Len(images) + 1, shortId |-> uuid, w |-> w, h |-> h, ext |-> fmt]

\* A slip: `image_${i}_...`, the index of the loop as it is.
imageNameFromZero(idx, uuid, w, h, fmt) ==
  [index |-> idx, shortId |-> uuid, w |-> w, h |-> h, ext |-> fmt]

\* `image_${i + 1}_${uuid}_${w}x${h}.${format.value}`, kept as its fields
imageName(idx, uuid, w, h, fmt) ==
  [index |-> idx + 1, shortId |-> uuid, w |-> w, h |-> h, ext |-> fmt]

\* The synchronous part of one iteration, up to `await fetch(dataURL)`.
newUnit(u, r) ==
  LET size == pickSize(r)
      mime == mimeOf(format)
      dataURL == toDataURL(u, mime)
      exifObj == IF exifWanted THEN makeExif(r) ELSE None
  IN  [w |-> size[1], h |-> size[2], uuid |-> u, exifObj |-> exifObj,
       dataURL |-> IF exifWanted THEN piexifInsert(dataURL) ELSE dataURL]

\* The rest of the iteration: the blob, its inflation, the item pushed.
\* (url, the object URL of the blob, is left out: nothing reads it back.)
\* hMade is history: the number of the unit that made the item, and the
\* value of the EXIF toggle then.
newImage(idx, un) ==
  LET blob == un.dataURL
      inflated == inflateBlob(blob, targetSize)
  IN  [name |-> imageName(idx, un.uuid, un.w, un.h, format),
       blob |-> inflated, exif |-> un.exifObj, uuid |-> un.uuid,
       width |-> un.w, height |-> un.h,
       hMade |-> [unit |-> hPushed + 1, withExif |-> withExif]]

\* A slip: i < count.value - 1.
loopStopsEarly(idx, cancelled) == idx + 1 < count /\ ~cancelled

\* A slip: the cancellation check left out.
loopIgnoresCancel(idx, cancelled) == idx < count

\* for (...; i < count.value; ...) { if (cancelRequested.value) break; ...
loopGoesOn(idx, cancelled) == idx < count /\ ~cancelled

\* The loop from its head at index idx to the next await or to the end of
\* generateImages; cancelled and step are cancelRequested and stepIdx there,
\* s the state of the random sources.
LoopFrom(idx, cancelled, step, s) ==
  IF loopGoesOn(idx, cancelled)
  THEN /\ idx < MaxUnits
       /\ unit' = newUnit(uuidAt(s), drawsAt(s))
       /\ rng' = (s + 1) % RngPeriod
       /\ i' = idx
       /\ stepIdx' = progressStep(idx)
       /\ isGenerating' = TRUE
  ELSE /\ unit' = None
       /\ rng' = 0
       /\ i' = 0
       /\ stepIdx' = IF ~cancelled THEN 10 ELSE step
       /\ isGenerating' = FALSE

(* ----------------------------- handlers -------------------------------- *)

Snapshot ==
  [count |-> count, format |-> format, withExif |-> withExif,
   randomSize |-> randomSize, width |-> width, height |-> height]

\* The history of a run lasts as long as the run.
HistFrom(idx, cancelled, run, pushed, touched, cancel) ==
  IF loopGoesOn(idx, cancelled)
  THEN hRun' = run /\ hPushed' = pushed /\ hTouched' = touched /\ hCancel' = cancel
  ELSE hRun' = None /\ hPushed' = 0 /\ hTouched' = {} /\ hCancel' = None

\* No file is handed to saveBlob.
Quiet == download' = None

\* A slip: cancelRequested left as the run before has left it.
generateImagesKeepsFlag ==
  IF isOverRamLimit
  THEN UNCHANGED <<runVars, histVars>>
  ELSE /\ cancelRequested' = cancelRequested
       /\ images' = <<>>
       /\ \E seed \in 0 .. (RngPeriod - 1) : LoopFrom(0, cancelRequested, 0, seed)
       /\ HistFrom(0, cancelRequested, Snapshot, 0, {}, None)
       /\ hDeleted' = 0

\* A slip: the check of the RAM limit left out.
generateImagesUnguarded ==
  /\ cancelRequested' = FALSE
  /\ images' = <<>>
  /\ \E seed \in 0 .. (RngPeriod - 1) : LoopFrom(0, FALSE, 0, seed)
  /\ HistFrom(0, FALSE, Snapshot, 0, {}, None)
  /\ hDeleted' = 0

generateImages ==
  IF isOverRamLimit
  THEN UNCHANGED <<runVars, histVars>>
  ELSE /\ cancelRequested' = FALSE
       /\ images' = <<>>
       /\ \E seed \in 0 .. (RngPeriod - 1) : LoopFrom(0, FALSE, 0, seed)
       /\ HistFrom(0, FALSE, Snapshot, 0, {}, None)
       /\ hDeleted' = 0

\* A slip: the button disabled by isOverRamLimit alone.
ClickGenerateWhileRunning ==
  /\ ~isOverRamLimit
  /\ count <= MaxUnits
  /\ generateImages
  /\ Quiet
  /\ UNCHANGED <<cfgVars, fnVars>>

\* <UButton :disabled="isGenerating || isOverRamLimit" @click="generateImages">
ClickGenerate ==
  /\ ~isGenerating /\ ~isOverRamLimit
  /\ count <= MaxUnits
  /\ generateImages
  /\ Quiet
  /\ UNCHANGED <<cfgVars, fnVars>>

\* A slip: the cancellation looked at right after the await, the unit in
\* flight dropped.
ResumeUnitDropsCancelled ==
  /\ isGenerating /\ unit # None
  /\ images' = IF cancelRequested THEN images ELSE Append(images, newImage(i, unit))
  /\ LoopFrom(i + 1, cancelRequested, stepIdx, rng)
  /\ HistFrom(i + 1, cancelRequested, hRun, hPushed + 1, hTouched, hCancel)
  /\ Quiet
  /\ UNCHANGED <<cfgVars, cancelRequested, hDeleted, fnVars>>

\* generateImages resumed after `await (await fetch(dataURL)).blob()`
ResumeUnit ==
  /\ isGenerating /\ unit # None
  /\ images' = Append(images, newImage(i, unit))
  /\ LoopFrom(i + 1, cancelRequested, stepIdx, rng)
  /\ HistFrom(i + 1, cancelRequested, hRun, hPushed + 1, hTouched, hCancel)
  /\ Quiet
  /\ UNCHANGED <<cfgVars, cancelRequested, hDeleted, fnVars>>

\* <UButton v-if="isGenerating" @click="cancelGeneration">
cancelGeneration ==
  /\ isGenerating
  /\ cancelRequested' = TRUE
  /\ hCancel' = [units |-> hPushed, held |-> Len(images)]
  /\ Quiet
  /\ UNCHANGED <<cfgVars, images, isGenerating, stepIdx, i, unit, rng,
                 hRun, hPushed, hTouched, hDeleted, fnVars>>

\* images.value.splice(idx, 1), idx the 0-based index of the v-for
splice1(list, idx) == SubSeq(list, 1, idx) \o SubSeq(list, idx + 2, Len(list))

deleteImage(idx) ==
  /\ hDeleted < MaxDeletes
  /\ images' = splice1(images, idx)
  /\ hDeleted' = hDeleted + 1
  /\ Quiet
  /\ UNCHANGED <<cfgVars, isGenerating, cancelRequested, stepIdx, i, unit,
                 rng, hRun, hPushed, hTouched, hCancel, fnVars>>

ClickDelete == \E idx \in 0 .. (Len(images) - 1) : deleteImage(idx)

(* ----------------------------- settings -------------------------------- *)

CountInputs == 1 .. MaxCount
\* The size badges followed.
SizeBadges == {landscapeSizes[1], portraitSizes[1]}
\* The target sizes followed.
TargetSizes == {targetSizeItems[1], targetSizeItems[2]}

\* What a change made while a run is in progress leaves in the history.  One
\* change of each setting is followed per run.
Touch(what) ==
  /\ what \notin hTouched
  /\ hTouched' = IF isGenerating THEN hTouched \cup {what} ELSE hTouched

\* <UInput v-model.number="count" :disabled="isGenerating">, then the watcher
InputCount(n) ==
  /\ ~isGenerating /\ n # count
  /\ count' = watchCount(n, targetSize)
  /\ Quiet
  /\ UNCHANGED <<format, randomSize, width, height, withExif, targetSize,
                 runVars, histVars, fnVars>>

\* @click="count = Math.min(preset, maxCountAllowed)"
presetCount(preset) == Min(preset, maxCountAllowed)

ClickCountPreset(preset) ==
  /\ presetCount(preset) <= MaxUnits
  /\ count' = watchCount(presetCount(preset), targetSize)
  /\ count' # count
  /\ Touch("count")
  /\ Quiet
  /\ UNCHANGED <<format, randomSize, width, height, withExif, targetSize,
                 runVars, hRun, hPushed, hCancel, hDeleted, fnVars>>

\* <URadioGroup v-model="format" :disabled="isGenerating">
SetFormat(f) ==
  /\ ~isGenerating /\ f # format
  /\ format' = f
  /\ Quiet
  /\ UNCHANGED <<count, randomSize, width, height, withExif, targetSize,
                 runVars, histVars, fnVars>>

\* <USwitch v-model="randomSize" :disabled="isGenerating">
ToggleRandomSize ==
  /\ ~isGenerating
  /\ randomSize' = ~randomSize
  /\ Quiet
  /\ UNCHANGED <<count, format, width, height, withExif, targetSize,
                 runVars, histVars, fnVars>>

\* <UFormField v-if="format === 'jpg'"> <USwitch v-model="withExif" ...>
ToggleWithExif ==
  /\ format = "jpg" /\ ~isGenerating
  /\ withExif' = ~withExif
  /\ Quiet
  /\ UNCHANGED <<count, format, randomSize, width, height, targetSize,
                 runVars, histVars, fnVars>>

\* <div v-if="!randomSize"> <UBadge ... @click="setSize(size)">
setSize(size) ==
  /\ ~randomSize /\ size # <<width, height>>
  /\ width' = size[1]
  /\ height' = size[2]
  /\ Touch("size")
  /\ Quiet
  /\ UNCHANGED <<count, format, randomSize, withExif, targetSize,
                 runVars, hRun, hPushed, hCancel, hDeleted, fnVars>>

\* <URadioGroup v-model="targetSize" :disabled="isGenerating">, then the watcher
SetTargetSize(t) ==
  /\ ~isGenerating /\ t # targetSize
  /\ targetSize' = t
  /\ count' = watchCount(count, t)
  /\ Quiet
  /\ UNCHANGED <<format, randomSize, width, height, withExif,
                 runVars, histVars, fnVars>>

(* ------------------------------ archive -------------------------------- *)

\* A slip: the entries named by their extension alone.
zipFileByExt(zip, name, blob) ==
  {e \in zip : e.name.ext # name.ext} \cup {[name |-> name, data |-> blob]}

\* zip.file(name, blob): the entry of that name is added or replaced
zipFile(zip, name, blob) ==
  {e \in zip : e.name # name} \cup {[name |-> name, data |-> blob]}

RECURSIVE zipAll(_, _)
zipAll(list, zip) ==
  IF list = <<>> THEN zip
  ELSE zipAll(Tail(list), zipFile(zip, Head(list).name, Head(list).blob))

\* <UButton :disabled="isGenerating || !images.length" @click="downloadZip">
downloadZip ==
  /\ ~isGenerating /\ Len(images) # 0
  /\ download' = [filename |-> "images.zip", files |-> zipAll(images, {})]
  /\ UNCHANGED <<cfgVars, runVars, histVars, fnVars>>

(* --------------------------- specification ----------------------------- *)

\* The refs as <script setup> leaves them.
ConstructSize == randomSize = TRUE /\ width = 1920 /\ height = 1080

ConstructRest ==
  /\ count = 1 /\ format = "jpg" /\ withExif = FALSE /\ targetSize = 0
  /\ images = <<>> /\ isGenerating = FALSE /\ cancelRequested = FALSE
  /\ stepIdx = 0 /\ i = 0 /\ unit = None
  /\ rng = 0
  /\ download = None
  /\ hRun = None /\ hPushed = 0 /\ hTouched = {} /\ hCancel = None /\ hDeleted = 0

Construct == ConstructSize /\ ConstructRest

Init == Construct /\ fnArgs = None /\ fnResult = None

Next ==
  \/ ClickGenerate
  \/ ResumeUnit
  \/ cancelGeneration
  \/ ClickDelete
  \/ \E n \in CountInputs : InputCount(n)
  \/ \E preset \in countPresets : ClickCountPreset(preset)
  \/ \E f \in {"jpg", "png"} : SetFormat(f)
  \/ ToggleRandomSize
  \/ ToggleWithExif
  \/ \E size \in SizeBadges : setSize(size)
  \/ \E t \in TargetSizes : SetTargetSize(t)

Spec == Init /\ [][Next]_vars

\* The page with the Download ZIP button; the settings that do not reach the
\* archive are left as they are.
NextZip ==
  \/ ClickGenerate
  \/ ResumeUnit
  \/ cancelGeneration
  \/ ClickDelete
  \/ \E n \in CountInputs : InputCount(n)
  \/ \E f \in {"jpg", "png"} : SetFormat(f)
  \/ ToggleWithExif
  \/ \E t \in TargetSizes : SetTargetSize(t)
  \/ downloadZip

SpecZip == Init /\ [][NextZip]_vars

(* --------------------------- a unit that throws ------------------------ *)

\* A slip: the unit in a try/catch, the loop going on with the next unit.
FailUnitSkips ==
  /\ isGenerating /\ unit # None
  /\ LoopFrom(i + 1, cancelRequested, stepIdx, rng)
  /\ HistFrom(i + 1, cancelRequested, hRun, hPushed, hTouched, hCancel)
  /\ Quiet
  /\ UNCHANGED <<cfgVars, images, cancelRequested, hDeleted, fnVars>>

\* The unit in flight throws (piexif.insert, fetch, blob): nothing in
\* generateImages catches it, so the call is over at that statement, the
\* lines after the loop included, and nothing is in flight any more.
FailUnit ==
  /\ isGenerating /\ unit # None
  /\ unit' = None
  /\ Quiet
  /\ UNCHANGED <<cfgVars, images, isGenerating, cancelRequested, stepIdx, i,
                 rng, histVars, fnVars>>

\* The page with units that can throw; the settings of size and format are
\* left as they are.
NextFail ==
  \/ ClickGenerate
  \/ ResumeUnit
  \/ FailUnit
  \/ cancelGeneration
  \/ ClickDelete
  \/ \E n \in CountInputs : InputCount(n)
  \/ \E preset \in countPresets : ClickCountPreset(preset)

SpecFail == Init /\ [][NextFail]_vars

\* A fetch of a data URL that does not throw is answered: the call that
\* waits for it is resumed.
SpecFailLive == SpecFail /\ WF_vars(ResumeUnit)

(* ------------------- generateImages called by a script ----------------- *)

IsCall(args, fn) == "fn" \in DOMAIN args /\ args.fn = fn

\* A script writes count and targetSize and calls generateImages in one go:
\* the watcher of the two refs runs once the script is through, so that the
\* call can find count above maxCountAllowed. fnArgs tells that the watcher
\* is still to run, fnResult what the last call found.
watchPending == IsCall(fnArgs, "watch")
Called == IsCall(fnResult, "generateImages")

\* The counts around the limit of each target size.
ScriptCounts(t) == {1, 2, maxCountAllowedOf(t), maxCountAllowedOf(t) + 1}
ScriptTargets == {targetSizeItems[k] : k \in 1 .. Len(targetSizeItems)}

\* count.value = n; targetSize.value = t
AssignRefs(n, t) ==
  /\ ~isGenerating
  /\ <<n, t>> # <<count, targetSize>>
  /\ count' = n /\ targetSize' = t
  /\ fnArgs' = [fn |-> "watch"]
  /\ Quiet
  /\ UNCHANGED <<format, randomSize, width, height, withExif, runVars,
                 histVars, fnResult>>

\* watch([targetSize, count], () => { if (count.value > maxCountAllowed.value) ... })
FlushWatcher ==
  /\ watchPending
  /\ count' = watchCount(count, targetSize)
  /\ fnArgs' = None
  /\ Quiet
  /\ UNCHANGED <<format, randomSize, width, height, withExif, targetSize,
                 runVars, histVars, fnResult>>

\* generateImages(), not through the button
CallGenerate ==
  /\ ~isGenerating
  /\ generateImages
  /\ fnResult' = [fn |-> "generateImages", over |-> isOverRamLimit,
                  seq |-> IF Called THEN 1 - fnResult.seq ELSE 0]
  /\ Quiet
  /\ UNCHANGED <<cfgVars, fnArgs>>

NextGuard ==
  \/ \E t \in ScriptTargets : \E n \in ScriptCounts(t) : AssignRefs(n, t)
  \/ FlushWatcher
  \/ CallGenerate
  \/ ResumeUnit
  \/ cancelGeneration

SpecGuard == Init /\ [][NextGuard]_vars

(* ------------------------- one run after another ----------------------- *)

\* The click on Generate, with a note in fnResult of what the run before
\* has left behind.
Restart ==
  /\ ~isGenerating /\ ~isOverRamLimit
  /\ count <= MaxUnits
  /\ generateImages
  /\ fnResult' = [fn |-> "generateImages",
                  before |-> [cancelRequested |-> cancelRequested,
                              stepIdx |-> stepIdx, held |-> Len(images)]]
  /\ Quiet
  /\ UNCHANGED <<cfgVars, fnArgs>>

NextRestart ==
  \/ Restart
  \/ ResumeUnit
  \/ cancelGeneration
  \/ ClickDelete
  \/ \E n \in CountInputs : InputCount(n)
  \/ \E preset \in countPresets : ClickCountPreset(preset)

SpecRestart == Init /\ [][NextRestart]_vars

(* ---------------------- helpers called on their own -------------------- *)

Returned == "value" \in DOMAIN fnResult

\* Blobs of up to MaxParts runs of up to MaxRun bytes; 0 is among the bytes,
\* so that content and padding can look alike.
TestParts == [byte : {0, 7}, n : 1 .. MaxRun]
TestBlobs ==
  {[type |-> "image/jpeg", parts |-> ps] :
     ps \in UNION {[1 .. len -> TestParts] : len \in 0 .. MaxParts}}

InitInflate ==
  /\ Construct
  /\ fnArgs \in [fn : {"inflateBlob"}, blob : TestBlobs, targetBytes : 0 .. MaxTarget]
  /\ fnResult = None

CallInflateBlob ==
  /\ IsCall(fnArgs, "inflateBlob") /\ ~Returned
  /\ fnResult' = [value |-> inflateBlob(fnArgs.blob, fnArgs.targetBytes)]
  /\ UNCHANGED <<cfgVars, runVars, download, histVars, fnArgs>>

SpecInflate == InitInflate /\ [][CallInflateBlob]_vars

\* Math.random() results that decide the list (landscape above a half) and
\* that reach every entry of a list of four; every result for the offsets.
CoinDraws == {0, RandRes \div 2, RandRes \div 2 + 1, RandRes - 1}
IndexDraws == {(k * RandRes) \div 4 : k \in 0 .. 3} \cup {RandRes - 1}
FixedSizes == {<<1920, 1080>>, <<800, 600>>, <<640, 480>>, <<1, 3840>>}

\* The size settings the page can be in when pickSize is called.
InitPick ==
  /\ ConstructRest /\ fnResult = None
  /\ \/ /\ ConstructSize
        /\ fnArgs \in [fn : {"pickSize"}, r : CoinDraws \X IndexDraws \X Random \X Random]
     \/ /\ randomSize = FALSE
        /\ \E size \in FixedSizes : width = size[1] /\ height = size[2]
        /\ fnArgs = [fn |-> "pickSize", r |-> <<0, 0, 0, 0>>]

CallPickSize ==
  /\ IsCall(fnArgs, "pickSize") /\ ~Returned
  /\ fnResult' = [value |-> pickSize(fnArgs.r)]
  /\ UNCHANGED <<cfgVars, runVars, download, histVars, fnArgs>>

SpecPick == InitPick /\ [][CallPickSize]_vars

\* randInt(0, 90) + Math.random() and randInt(0, 180) + Math.random(), for
\* every result of the two Math.random() calls.
InitGps ==
  /\ Construct
  /\ fnArgs \in [fn : {"gpsDegrees"}, max : {90, 180}, rInt : Random, rFrac : Random]
  /\ fnResult = None

CallGpsDegrees ==
  /\ IsCall(fnArgs, "gpsDegrees") /\ ~Returned
  /\ fnResult' = [value |-> gpsDegrees(fnArgs.max, fnArgs.rInt, fnArgs.rFrac)]
  /\ UNCHANGED <<cfgVars, runVars, download, histVars, fnArgs>>

SpecGps == InitGps /\ [][CallGpsDegrees]_vars

\* The watcher of targetSize and count, for every target size of the select
\* and every count up to three times the limit of that size.
WatchedCounts(t) == 0 .. (3 * maxCountAllowedOf(t))

InitWatch ==
  /\ Construct /\ fnResult = None
  /\ \E t \in ScriptTargets : \E c \in WatchedCounts(t) :
       fnArgs = [fn |-> "watchCount", count |-> c, targetSize |-> t]

CallWatch ==
  /\ IsCall(fnArgs, "watchCount") /\ ~Returned
  /\ fnResult' = [value |-> watchCount(fnArgs.count, fnArgs.targetSize)]
  /\ UNCHANGED <<cfgVars, runVars, download, histVars, fnArgs>>

SpecWatch == InitWatch /\ [][CallWatch]_vars

(* ------------------------------ claims --------------------------------- *)

\* What the call of a helper got and what it gave back.
InBytes == BlobBytes(fnArgs.blob)
OutBytes == BlobBytes(fnResult.value)
Inflated == IsCall(fnArgs, "inflateBlob") /\ Returned

\* C4: inflateBlob on bytes of length L and target T gives bytes of length
\* max(L, T); for T = 0 and for T <= L it gives back the blob it was given.
C4_InflateLength ==
  Inflated =>
    /\ Len(OutBytes) = Max(Len(InBytes), fnArgs.targetBytes)
    /\ (fnArgs.targetBytes <= Len(InBytes) => fnResult.value = fnArgs.blob)

\* C4, its case: a blob that is not empty was padded, another time to come.
C4_Witness ==
  /\ Inflated
  /\ 0 < Len(InBytes) /\ Len(InBytes) < fnArgs.targetBytes
  /\ Len(OutBytes) = fnArgs.targetBytes

\* C5: when inflateBlob pads (T > L), the first L bytes of the result are the
\* bytes it was given, in order, and the T - L bytes after them are all zero.
C5_PaddingAppended ==
  (Inflated /\ fnArgs.targetBytes > Len(InBytes)) =>
    /\ Len(OutBytes) = fnArgs.targetBytes
    /\ SubSeq(OutBytes, 1, Len(InBytes)) = InBytes
    /\ \A k \in (Len(InBytes) + 1) .. Len(OutBytes) : OutBytes[k] = 0

\* C5, its case: content that does not end in zero was padded.
C5_Witness ==
  /\ Inflated
  /\ fnArgs.targetBytes > Len(InBytes) + 1
  /\ Len(InBytes) > 1 /\ InBytes[1] # 0 /\ InBytes[Len(InBytes)] # 0
  /\ OutBytes[Len(OutBytes)] = 0

Presets ==
  {landscapeSizes[k] : k \in 1 .. Len(landscapeSizes)}
    \cup {portraitSizes[k] : k \in 1 .. Len(portraitSizes)}

Picked == IsCall(fnArgs, "pickSize") /\ Returned

\* C6: in random-size mode pickSize gives a width and a height that are both
\* within 50 of the width and the height of one same preset, whatever the
\* random draws; so both are positive.
C6_RandomWithinJitter ==
  (Picked /\ randomSize) =>
    LET w == fnResult.value[1]
        h == fnResult.value[2]
    IN  /\ \E base \in Presets :
             /\ base[1] - 50 <= w /\ w <= base[1] + 50
             /\ base[2] - 50 <= h /\ h <= base[2] + 50
        /\ w > 0 /\ h > 0

\* C6, its case: the last portrait preset with the largest offset on the
\* width and the smallest on the height.
C6_Witness ==
  /\ Picked /\ randomSize
  /\ fnResult.value = <<1440 + 50, 2560 - 50>>

\* A step that ends the run in progress.
RunEnds == isGenerating /\ ~isGenerating'

UnitOf(img) == img.hMade.unit

InOrder(list) ==
  \A p, q \in 1 .. Len(list) : p < q => UnitOf(list[p]) < UnitOf(list[q])

\* C1 as claimed: a run started with count N that is not cancelled ends with
\* exactly N entries in images, the entry at position p made by unit p.
C1_AsClaimed ==
  [][(RunEnds /\ ~cancelRequested') =>
       /\ Len(images') = hRun.count
       /\ \A p \in 1 .. Len(images') : images'[p].name.index = p]_vars

\* C1, amended: a run that is not cancelled ends at the first unit boundary
\* where the units made are no fewer than count, after exactly N units when
\* count was not changed meanwhile; images then holds the items made, less
\* those deleteImage removed, in the order they were made, each named after
\* its unit: N entries, entry p made by unit p, when none was removed.
C1_CompleteRun ==
  [][(RunEnds /\ ~cancelRequested') =>
       LET made == hPushed + 1
       IN  /\ made >= count
           /\ "count" \notin hTouched => made = hRun.count
           /\ Len(images') = made - hDeleted
           /\ InOrder(images')
           /\ \A p \in 1 .. Len(images') :
                /\ UnitOf(images'[p]) \in 1 .. made
                /\ images'[p].name.index = UnitOf(images'[p])
           /\ hDeleted = 0 => \A p \in 1 .. Len(images') : images'[p].name.index = p]_vars

\* C1, its case: a run of at least two units has ended, not cancelled and
\* with nothing removed.
C1_Witness ==
  /\ ~isGenerating /\ ~cancelRequested /\ stepIdx = 10
  /\ count >= 2 /\ Len(images) = count /\ hDeleted = 0
  /\ \A p \in 1 .. Len(images) : images[p].name.index = p

\* C2 as claimed: Cancel clicked when k entries are in images, the run ends
\* with exactly k entries.
C2_AsClaimed ==
  [][(RunEnds /\ cancelRequested') => Len(images') = hCancel.held]_vars

\* C2, amended: Cancel clicked when k units are completed, the unit in flight
\* is still completed and appended and the run ends there, after k + 1 units;
\* neither the click nor the end of the run removes an entry, so images ends
\* with the k + 1 items less those deleteImage removed during the run.
C2_CancelledRun ==
  [][/\ (RunEnds /\ cancelRequested') =>
          /\ hCancel # None
          /\ hPushed + 1 = hCancel.units + 1
          /\ Len(images') = hCancel.units + 1 - hDeleted
          /\ SubSeq(images', 1, Len(images)) = images
          /\ UnitOf(images'[Len(images')]) = hCancel.units + 1
     /\ (~cancelRequested /\ cancelRequested') => images' = images]_vars

\* C2, its case: a run of five units was cancelled during its second unit
\* and has ended with the two items.
C2_Witness ==
  /\ ~isGenerating /\ cancelRequested
  /\ count = 5 /\ Len(images) = 2 /\ hDeleted = 0
  /\ UnitOf(images[2]) = 2

\* C3: an item of images has an EXIF block exactly if it was made as JPEG
\* with the EXIF toggle on; an item made as PNG has none, whatever the toggle.
C3_ExifOnlyJpeg ==
  \A p \in 1 .. Len(images) :
    LET img == images[p]
    IN  /\ img.exif # None <=> (img.name.ext = "jpg" /\ img.hMade.withExif)
        /\ img.name.ext = "png" => img.exif = None
        /\ img.name.ext = "jpg" <=> img.blob.type = "image/jpeg"

\* C3, its case: a PNG made with the toggle on is held, without a block.
C3_WitnessPng ==
  /\ Len(images) >= 2
  /\ \A p \in 1 .. Len(images) :
       /\ images[p].name.ext = "png" /\ images[p].hMade.withExif
       /\ images[p].exif = None

\* C3, its other case: JPEGs made with the toggle on are held, with blocks.
C3_Witness ==
  /\ Len(images) >= 2
  /\ \A p \in 1 .. Len(images) : images[p].exif # None /\ images[p].name.ext = "jpg"

\* C7 as claimed: the items of a run started in fixed-size mode with width W
\* and height H all have width W and height H.
C7_AsClaimed ==
  (isGenerating /\ ~hRun.randomSize) =>
    \A p \in 1 .. Len(images) :
      /\ images[p].width = hRun.width /\ images[p].height = hRun.height
      /\ images[p].name.w = hRun.width /\ images[p].name.h = hRun.height

\* C7, the part that holds: pickSize in fixed-size mode gives the width and
\* the height of the number fields.
C7_PickSizeFixed ==
  (Picked /\ ~randomSize) => fnResult.value = <<width, height>>

ExtOf(mime) == IF mime = "image/jpeg" THEN "jpg" ELSE "png"

\* C9: the name of every item is image_<index>_<shortId>_<width>x<height>.<ext>
\* with the number of the unit that made it, its uuid, its width and height
\* and the format it was encoded in.
C9_NamePattern ==
  \A p \in 1 .. Len(images) :
    LET img == images[p]
    IN  img.name = [index |-> UnitOf(img), shortId |-> img.uuid,
                    w |-> img.width, h |-> img.height, ext |-> ExtOf(img.blob.type)]

\* C9, its case: two items with different short ids, the second a PNG made
\* in fixed-size mode.
C9_Witness ==
  /\ Len(images) >= 2
  /\ images[1].uuid # images[2].uuid
  /\ images[2].name = [index |-> 2, shortId |-> images[2].uuid,
                       w |-> 1080, h |-> 1920, ext |-> "png"]

\* C8: the archive downloadZip hands over has one entry for each item of
\* images, under the name of the item and with its blob, and no other entry.
C8_ArchiveIsImages ==
  download # None =>
    /\ Cardinality(download.files) = Len(images)
    /\ \A p \in 1 .. Len(images) :
         [name |-> images[p].name, data |-> images[p].blob] \in download.files
    /\ \A e \in download.files :
         \E p \in 1 .. Len(images) : e.name = images[p].name /\ e.data = images[p].blob

\* C8, its case: an archive of two entries.
C8_Witness ==
  /\ download # None
  /\ Len(images) = 2 /\ Cardinality(download.files) = 2

\* A step in which generateImages is called.
CallStep == fnResult' # fnResult /\ IsCall(fnResult', "generateImages")

\* C10: a call of generateImages made while count * estimatedImageSize is
\* above 500 MB (estimatedImageSize the target size, 300 KB for the target
\* size 0) starts no run: images, isGenerating, cancelRequested and stepIdx
\* are after the call what they were before it.
C10_OverLimitNoRun ==
  [][(CallStep /\ count * (IF targetSize = 0 THEN 300 * 1024 ELSE targetSize)
                    > 500 * 1024 * 1024) =>
       /\ images' = images
       /\ isGenerating' = isGenerating
       /\ cancelRequested' = cancelRequested
       /\ stepIdx' = stepIdx]_vars

\* C10, its case: generateImages was called one above the limit of the 1 MB
\* target, the two items of the run before are still held and no run is on.
C10_Witness ==
  /\ Called /\ fnResult.over
  /\ count = 501 /\ targetSize = 1024 * 1024
  /\ Len(images) = 2 /\ stepIdx = 10 /\ ~isGenerating /\ ~cancelRequested

\* C10, the other side of the limit: a call at the limit starts a run.
C10_AtLimitRuns ==
  [][(CallStep /\ count * (IF targetSize = 0 THEN 300 * 1024 ELSE targetSize)
                    <= 500 * 1024 * 1024) => isGenerating']_vars

GpsGiven == IsCall(fnArgs, "gpsDegrees") /\ Returned

\* C11 as claimed: the latitude handed to degToDmsRational is between 0 and
\* 90 degrees inclusive and the longitude between 0 and 180 degrees
\* inclusive, whatever the integer draw and the fraction (a coordinate is
\* counted in units of 1 / RandRes of a degree).
C11_AsClaimed ==
  GpsGiven => fnResult.value >= 0 /\ fnResult.value <= fnArgs.max * RandRes

\* C11, what does hold: a coordinate is at least 0 and below max + 1 degrees.
C11_BelowNextDegree ==
  GpsGiven => fnResult.value >= 0 /\ fnResult.value < (fnArgs.max + 1) * RandRes

\* C11, the case that breaks it: the integer draw is 90 and the fraction is
\* not 0.
C11_Above90 ==
  /\ GpsGiven /\ fnArgs.max = 90
  /\ fnResult.value > 90 * RandRes

\* C12: a cancellation is seen at a unit boundary only.  The click leaves
\* the unit in flight as it is; that unit is still completed and appended;
\* with its append the run ends, so no unit is started after the click and
\* one item at most is appended after it.
C12_CancelAtBoundary ==
  [][/\ (isGenerating /\ ~cancelRequested /\ cancelRequested') =>
          unit # None /\ unit' = unit /\ i' = i /\ images' = images /\ isGenerating'
     /\ (isGenerating /\ cancelRequested /\ isGenerating') =>
          unit' = unit /\ i' = i /\ Len(images') <= Len(images)
     /\ (isGenerating /\ cancelRequested /\ ~isGenerating') =>
          /\ Len(images') = Len(images) + 1
          /\ SubSeq(images', 1, Len(images)) = images
          /\ UnitOf(images'[Len(images')]) = hCancel.units + 1
          /\ images'[Len(images')].uuid = unit.uuid
          /\ unit' = None]_vars

\* C12, its case: Cancel was clicked during the first unit of a run of two;
\* the run has ended with that one item.
C12_Witness ==
  /\ ~isGenerating /\ cancelRequested
  /\ count = 2 /\ Len(images) = 1 /\ hDeleted = 0
  /\ UnitOf(images[1]) = 1

StepBounded ==
  /\ stepIdx \in 0 .. 10
  /\ stepIdx + 1 \in DOMAIN statusSteps /\ Len(statusSteps) = 11
  /\ isGenerating => stepIdx <= 9
  /\ stepIdx = 10 => ~cancelRequested

\* C13: stepIdx is in 0..10 in every state, an index into the 11 entries of
\* statusSteps, and at most 9 while isGenerating; it becomes 10 only in the
\* step that ends a run with the cancellation flag not set, and a run that
\* ends with the flag set leaves it at most 9.
C13_StepBounded ==
  [][/\ StepBounded /\ StepBounded'
     /\ (stepIdx' = 10 /\ stepIdx # 10) => (RunEnds /\ ~cancelRequested')
     /\ (RunEnds /\ cancelRequested') => (stepIdx' <= 9 /\ stepIdx' = stepIdx)
     /\ (RunEnds /\ ~cancelRequested') => stepIdx' = 10]_vars

\* C13, its case: a run of two was cancelled during its first unit and has
\* ended, the index at 5 of 10.
C13_Witness ==
  /\ ~isGenerating /\ cancelRequested
  /\ stepIdx = 5 /\ Len(images) = 1

\* generateImages has thrown: the run is on, nothing is in flight.
Thrown == isGenerating /\ unit = None

JustStarted ==
  /\ isGenerating /\ unit # None /\ i = 0 /\ images = <<>>
  /\ hPushed = 0 /\ hTouched = {} /\ hCancel = None /\ hDeleted = 0

\* C15: one run at most is active.  generateImages is entered only when no
\* run is on and nothing is in flight; while a run is on, one unit is in
\* flight, the one after those already made, and the items of images are
\* units of this run in the order they were made.
C15_OneRunAtATime ==
  [][/\ JustStarted' => (~isGenerating /\ unit = None)
     /\ isGenerating' =>
          /\ unit' # None /\ i' = hPushed'
          /\ InOrder(images')
          /\ \A p \in 1 .. Len(images') : UnitOf(images'[p]) \in 1 .. hPushed'
     /\ (isGenerating /\ isGenerating') => hPushed' \in {hPushed, hPushed + 1}]_vars

\* C15, its case: a run of five is waiting for its second unit, one item
\* made.
C15_Witness ==
  /\ isGenerating /\ unit # None /\ i = 1
  /\ count = 5 /\ Len(images) = 1 /\ ~cancelRequested

\* C16 as claimed: every run that starts leaves the Running state, isGenerating
\* becomes false again, also when a unit throws.
C16_AsClaimed == isGenerating ~> ~isGenerating

\* C16, what does hold: a run ends unless a unit throws.
C16_EndsUnlessThrown == isGenerating ~> (~isGenerating \/ Thrown)

\* C16, what becomes of a run whose unit has thrown: isGenerating stays true.
C16_ThrownStaysRunning == [][Thrown => Thrown']_vars

\* C17: a run starts from a clean slate.  The step that starts it leaves
\* cancelRequested false, images empty and stepIdx at the progress of the
\* first unit (the 0 written on entry is overwritten at the head of the loop
\* before generateImages first waits), whatever the run before has left; a
\* run ends with the flag set only if Cancel was clicked during this run, and
\* otherwise runs to the end; when it ends, images holds items of this run
\* only.
C17_RunStartsClean ==
  [][/\ (~isGenerating /\ (isGenerating' \/ fnResult' # fnResult)) =>
          /\ isGenerating' /\ unit' # None
          /\ cancelRequested' = FALSE
          /\ images' = <<>>
          /\ stepIdx' = Min(10 \div count, 9)
          /\ i' = 0 /\ hPushed' = 0
     /\ (RunEnds /\ cancelRequested') => hCancel # None
     /\ (RunEnds /\ hCancel = None) =>
          ~cancelRequested' /\ stepIdx' = 10 /\ hPushed + 1 >= count
     /\ RunEnds =>
          /\ Len(images') = hPushed + 1 - hDeleted
          /\ InOrder(images')
          /\ \A p \in 1 .. Len(images') : UnitOf(images'[p]) \in 1 .. hPushed + 1]_vars

\* C17, its case: the run before was cancelled and has left the flag set and
\* an item behind; the run after it, of two units, has run to its end and
\* holds its own two items.
C17_Witness ==
  /\ Called /\ fnResult.before.cancelRequested /\ fnResult.before.held = 1
  /\ ~isGenerating /\ ~cancelRequested /\ stepIdx = 10
  /\ count = 2 /\ Len(images) = 2 /\ hDeleted = 0
  /\ UnitOf(images[1]) = 1 /\ UnitOf(images[2]) = 2

\* C18: in every state the names of the items of images are pairwise
\* distinct and their indices grow strictly along the list, whatever units
\* were appended and whatever items were removed in between.
C18_NamesDistinct ==
  \A p, q \in 1 .. Len(images) :
    p < q => /\ images[p].name.index < images[q].name.index
             /\ images[p].name # images[q].name

\* C18, its case: during a run the first item was removed after the second
\* was made, and the third was appended after that.
C18_Witness ==
  /\ isGenerating /\ hDeleted = 1 /\ Len(images) = 2
  /\ images[1].name.index = 2 /\ images[2].name.index = 3

Watched == IsCall(fnArgs, "watchCount") /\ Returned

\* 500 MB over the estimated size of an image, 300 KB for the target size 0.
LimitOf(t) == (500 * 1024 * 1024) \div (IF t = 0 THEN 300 * 1024 ELSE t)

\* C19: once the watcher has run, count is at most maxCountAllowed, which is
\* max(1, floor(500 MB / estimatedImageSize)); count * estimatedImageSize is
\* then at most 500 MB and isOverRamLimit is false, for each of the target
\* sizes 0, 1 MB, 5 MB and 10 MB.  A count within the limit is left as it is.
C19_WatcherClamps ==
  Watched =>
    LET t == fnArgs.targetSize
        c == fnResult.value
        est == IF t = 0 THEN 300 * 1024 ELSE t
    IN  /\ t \in {0, 1024 * 1024, 5 * 1024 * 1024, 10 * 1024 * 1024}
        /\ maxCountAllowedOf(t) = LimitOf(t) /\ LimitOf(t) >= 1
        /\ c <= LimitOf(t)
        /\ c * est <= 500 * 1024 * 1024
        /\ ~isOverRamLimitOf(c, t)
        /\ c = IF fnArgs.count <= LimitOf(t) THEN fnArgs.count ELSE LimitOf(t)

\* C19, its case: count 1707 with the target size 0 has become 1706.
C19_Witness ==
  /\ Watched /\ fnArgs.targetSize = 0 /\ fnArgs.count = 1707
  /\ fnResult.value = 1706

\* C19 on the page: whenever the watcher is not about to run, count is
\* within the limit.
C19_PageWithinLimit ==
  ~watchPending => (count <= LimitOf(targetSize) /\ ~isOverRamLimit)

====
